---- MODULE Spec2Model ----
(***************************************************************************)
(* The Thrift compact protocol driver of lib/py/src/protocol/              *)
(* TCompactProtocol.py as a state machine: two protocol objects bound to   *)
(* one in-memory transport, the operations of the class as actions, and    *)
(* the varint, zigzag and header codecs as operators.                      *)
(***************************************************************************)
EXTENDS Integers, Sequences, FiniteSets, TLC

VARIABLES
  state,     \* self.state of each protocol object
  last_fid,  \* self.__last_fid
  bool_fid,  \* self.__bool_fid
  structs,   \* self.__structs, a stack of <<state, last_fid>>
  trans,     \* the bytes written to the transport and not yet read
  op,        \* the last call: <<self, name, arguments...>>
  ret,       \* what it returned
  err,       \* the exception it raised, or "none"
  ctx,       \* the caller's position in the value it is serializing
  log,       \* the writes the receiving side has not read yet
  sent,      \* the write that the last read mirrors
  open,      \* per object, what was begun and is not ended yet
  locals     \* n and out of a writeVarint in progress, or None

vars == <<state, last_fid, bool_fid, structs, trans, op, ret, err, ctx, log,
          sent, open, locals>>

\* ---------------------------------------------------------------- states
CLEAR == 0
WRITE == 1
BOOL_WRITE == 2
VALUE_WRITE == 3
CONTAINER_WRITE == 7
READ == 4
VALUE_READ == 6
CONTAINER_READ == 8
TRUE_READ == 9
FALSE_READ == 10

\* Python's None
None == <<>>

\* ---------------------------------------------- integers as Python has them
\* n >> k and n << k on unbounded two's complement integers
RECURSIVE Shr(_, _)
Shr(n, k) == IF k = 0 THEN n ELSE Shr(n \div 2, k - 1)

RECURSIVE Shl(_, _)
Shl(n, k) == IF k = 0 THEN n ELSE Shl(2 * n, k - 1)

RECURSIVE BitAnd(_, _)
BitAnd(a, b) ==
  IF a = 0 \/ b = 0 THEN 0
  ELSE IF a = -1 THEN b
  ELSE IF b = -1 THEN a
  ELSE 2 * BitAnd(a \div 2, b \div 2) + ((a % 2) * (b % 2))

RECURSIVE BitOr(_, _)
BitOr(a, b) ==
  IF a = 0 THEN b
  ELSE IF b = 0 THEN a
  ELSE IF a = -1 \/ b = -1 THEN -1
  ELSE 2 * BitOr(a \div 2, b \div 2)
       + (IF (a % 2) + (b % 2) > 0 THEN 1 ELSE 0)

RECURSIVE BitXor(_, _)
BitXor(a, b) ==
  IF a = 0 THEN b
  ELSE IF b = 0 THEN a
  ELSE IF a = -1 THEN -b - 1
  ELSE IF b = -1 THEN -a - 1
  ELSE 2 * BitXor(a \div 2, b \div 2) + (((a % 2) + (b % 2)) % 2)

\* ------------------------------------------------------------ type codes
TType ==
  [STOP |-> 0, VOID |-> 1, BOOL |-> 2, BYTE |-> 3, DOUBLE |-> 4, I16 |-> 6,
   I32 |-> 8, I64 |-> 10, STRING |-> 11, STRUCT |-> 12, MAP |-> 13,
   SET |-> 14, LIST |-> 15]

CompactType ==
  [True |-> 1, False |-> 2, BYTE |-> 3, I16 |-> 4, I32 |-> 5, I64 |-> 6,
   DOUBLE |-> 7, BINARY |-> 8, LIST |-> 9, SET |-> 10, MAP |-> 11,
   STRUCT |-> 12]

CTYPES ==
  (TType.BOOL :> CompactType.True) @@
  (TType.BYTE :> CompactType.BYTE) @@
  (TType.I16 :> CompactType.I16) @@
  (TType.I32 :> CompactType.I32) @@
  (TType.I64 :> CompactType.I64) @@
  (TType.DOUBLE :> CompactType.DOUBLE) @@
  (TType.STRING :> CompactType.BINARY) @@
  (TType.STRUCT :> CompactType.STRUCT) @@
  (TType.LIST :> CompactType.LIST) @@
  (TType.SET :> CompactType.SET) @@
  (TType.MAP :> CompactType.MAP)

\* TTYPES[v] = k for every k, v of CTYPES, then TTYPES[FALSE] = BOOL
TTYPES ==
  [v \in {CTYPES[k] : k \in DOMAIN CTYPES} \cup {CompactType.False} |->
     IF v = CompactType.False THEN TType.BOOL
     ELSE CHOOSE k \in DOMAIN CTYPES : CTYPES[k] = v]

\* the mapping writeBool looks its header code up in
types == [b \in BOOLEAN |-> IF b THEN CompactType.True ELSE CompactType.False]

PROTOCOL_ID == 130
VERSION == 1
VERSION_MASK == 31
TYPE_MASK == 224
TYPE_SHIFT_AMOUNT == 5

\* ------------------------------------------------ a call in progress
\* The object's fields, the transport and the outcome so far of one call.
\* A statement leaves the record alone once an exception is on its way.
Cur(self) ==
  [state |-> state[self], last_fid |-> last_fid[self],
   bool_fid |-> bool_fid[self], structs |-> structs[self], trans |-> trans,
   val |-> None, ret |-> None, err |-> "none"]

Ok(c) == c.err = "none"

raise(c, e) == IF Ok(c) THEN [c EXCEPT !.err = e] ELSE c

return(c, v) == IF Ok(c) THEN [c EXCEPT !.ret = v] ELSE c

setState(c, s) == IF Ok(c) THEN [c EXCEPT !.state = s] ELSE c

\* What a completed call opens and closes: a message begun counts until
\* its end, and a struct begun is kept, with the state and the last_fid it
\* was begun in, until the end of a struct takes the innermost one away.
Opens(self, o, c) ==
  LET was == open[self]
      n == Len(was.struct)
  IN IF ~Ok(c) THEN was
     ELSE IF o[1] \in {"writeMessageBegin", "readMessageBegin"}
     THEN [was EXCEPT !.message = @ + 1]
     ELSE IF o[1] \in {"writeMessageEnd", "readMessageEnd"}
     THEN [was EXCEPT !.message = IF @ > 0 THEN @ - 1 ELSE 0]
     ELSE IF o[1] \in {"writeStructBegin", "readStructBegin"}
     THEN [was EXCEPT !.struct = Append(@, <<state[self], last_fid[self]>>)]
     ELSE IF o[1] \in {"writeStructEnd", "readStructEnd"}
     THEN [was EXCEPT !.struct = IF n > 0 THEN SubSeq(@, 1, n - 1) ELSE <<>>]
     ELSE was

\* the call's commit: the fields, the transport and the outcome
Call(self, o, c) ==
  /\ state' = [state EXCEPT ![self] = c.state]
  /\ last_fid' = [last_fid EXCEPT ![self] = c.last_fid]
  /\ bool_fid' = [bool_fid EXCEPT ![self] = c.bool_fid]
  /\ structs' = [structs EXCEPT ![self] = c.structs]
  /\ trans' = c.trans
  /\ op' = <<self>> \o o
  /\ ret' = c.ret
  /\ err' = c.err
  /\ open' = [open EXCEPT ![self] = Opens(self, o, c)]
  /\ locals' = locals

\* ------------------------------------------------------------ transport
trans_write(c, bytes) == IF Ok(c) THEN [c EXCEPT !.trans = @ \o bytes] ELSE c

trans_readAll(c, sz) ==
  IF ~Ok(c) THEN c
  ELSE IF Len(c.trans) < sz THEN [c EXCEPT !.trans = <<>>, !.err = "EOFError"]
  ELSE [c EXCEPT !.val = SubSeq(c.trans, 1, sz),
                 !.trans = SubSeq(c.trans, sz + 1, Len(c.trans))]

\* ------------------------------------------------------- varint, zigzag
makeZigZag(n, bits) == BitXor(Shl(n, 1), Shr(n, bits - 1))

fromZigZag(n) == BitXor(Shr(n, 1), -BitAnd(n, 1))

RECURSIVE writeVarintLoop(_, _)
writeVarintLoop(n, out) ==
  IF BitAnd(n, -128) = 0 THEN Append(out, n)
  ELSE writeVarintLoop(Shr(n, 7), Append(out, BitOr(BitAnd(n, 255), 128)))

writeVarint(c, n) == trans_write(c, writeVarintLoop(n, <<>>))

RECURSIVE readVarintLoop(_, _, _)
readVarintLoop(c, result, shift) ==
  LET x == trans_readAll(c, 1)
      byte == x.val[1]
      r == BitOr(result, Shl(BitAnd(byte, 127), shift))
  IN IF ~Ok(x) THEN x
     ELSE IF Shr(byte, 7) = 0 THEN [x EXCEPT !.val = r]
     ELSE readVarintLoop(x, r, shift + 7)

readVarint(c) == IF Ok(c) THEN readVarintLoop(c, 0, 0) ELSE c

\* ---------------------------------------------- the class's private methods
__writeVarint(c, n) == writeVarint(c, n)

\* pack('!B', byte)
__writeUByte(c, byte) ==
  IF byte \in 0..255 THEN trans_write(c, <<byte>>) ELSE raise(c, "struct.error")

\* pack('!b', byte)
__writeByte(c, byte) ==
  IF byte \in -128..127 THEN trans_write(c, <<byte % 256>>)
  ELSE raise(c, "struct.error")

__writeI16(c, i16) == __writeVarint(c, makeZigZag(i16, 16))

__writeSize(c, i32) == __writeVarint(c, i32)

__writeString(c, s) == trans_write(__writeSize(c, Len(s)), s)

\* __writeFieldHeader with the short form ending one delta early; C8 tells
\* the two apart
__writeFieldHeader_short14(c, type, fid) ==
  LET delta == fid - c.last_fid
      w == IF 0 < delta /\ delta < 15
           THEN __writeUByte(c, BitOr(Shl(delta, 4), type))
           ELSE __writeI16(__writeByte(c, type), fid)
  IN IF Ok(w) THEN [w EXCEPT !.last_fid = fid] ELSE w

__writeFieldHeader(c, type, fid) ==
  LET delta == fid - c.last_fid
      w == IF 0 < delta /\ delta <= 15
           THEN __writeUByte(c, BitOr(Shl(delta, 4), type))
           ELSE __writeI16(__writeByte(c, type), fid)
  IN IF Ok(w) THEN [w EXCEPT !.last_fid = fid] ELSE w

\* unpack('!B', self.trans.readAll(1))
__readUByte(c) ==
  LET x == trans_readAll(c, 1) IN IF Ok(x) THEN [x EXCEPT !.val = @[1]] ELSE x

\* unpack('!b', self.trans.readAll(1))
__readByte(c) ==
  LET x == trans_readAll(c, 1)
  IN IF Ok(x) THEN [x EXCEPT !.val = IF @[1] >= 128 THEN @[1] - 256 ELSE @[1]]
     ELSE x

__readVarint(c) == readVarint(c)

__readZigZag(c) ==
  LET x == __readVarint(c)
  IN IF Ok(x) THEN [x EXCEPT !.val = fromZigZag(@)] ELSE x

__readI16(c) == __readZigZag(c)

\* TTYPES[byte & 0x0f]
__getTType(c, byte) ==
  IF ~Ok(c) THEN c
  ELSE IF BitAnd(byte, 15) \in DOMAIN TTYPES
       THEN [c EXCEPT !.val = TTYPES[BitAnd(byte, 15)]]
       ELSE raise(c, "KeyError")

\* __readSize with the limit one too high; C10 tells the two apart
__readSize_limit32768(c) ==
  LET x == __readVarint(c)
  IN IF ~Ok(x) THEN x
     ELSE IF x.val > 32768 THEN raise(x, "TException")
     ELSE IF x.val < 0 THEN raise(x, "TException")
     ELSE x

__readSize(c) ==
  LET x == __readVarint(c)
  IN IF ~Ok(x) THEN x
     ELSE IF x.val > 32767 THEN raise(x, "TException")
     ELSE IF x.val < 0 THEN raise(x, "TException")
     ELSE x

__readString(c) ==
  LET n == __readSize(c) IN IF Ok(n) THEN trans_readAll(n, n.val) ELSE n

\* ------------------------------------------------- the value decorators
\* nested(): the state assertion, func, and the finally clause, which runs
\* whether func returned or raised
make_helper(v_from, v_to, container, c, r) ==
  IF ~(c.state = v_from \/ c.state = container) THEN raise(c, "AssertionError")
  ELSE IF r.state = v_from THEN [r EXCEPT !.state = v_to] ELSE r

\* writer(func) and reader(func) on a call c, r being what func makes of c
writer(c, r) == make_helper(VALUE_WRITE, WRITE, CONTAINER_WRITE, c, r)

reader(c, r) == make_helper(VALUE_READ, READ, CONTAINER_READ, c, r)

\* a reading method's body returns what it read
returning(x) == return(x, x.val)

\* ------------------------------------------------------ the write side
writeMessageBegin(self, name, type, seqid) ==
  Call(self, <<"writeMessageBegin", name, type, seqid>>,
    LET c == Cur(self)
    IN IF c.state # CLEAR THEN raise(c, "AssertionError")
       ELSE setState(
              __writeString(
                __writeVarint(
                  __writeUByte(
                    __writeUByte(c, PROTOCOL_ID),
                    BitOr(VERSION, Shl(type, TYPE_SHIFT_AMOUNT))),
                  seqid),
                name),
              WRITE))

writeMessageEnd(self) ==
  Call(self, <<"writeMessageEnd">>,
    LET c == Cur(self)
    IN IF c.state # WRITE THEN raise(c, "AssertionError")
       ELSE setState(c, CLEAR))

\* writeStructBegin without its state assertion; C18 tells the two apart
writeStructBegin_unasserted(self, name) ==
  Call(self, <<"writeStructBegin", name>>,
    LET c == Cur(self)
    IN [c EXCEPT !.structs = Append(@, <<c.state, c.last_fid>>),
                 !.state = WRITE,
                 !.last_fid = 0])

writeStructBegin(self, name) ==
  Call(self, <<"writeStructBegin", name>>,
    LET c == Cur(self)
    IN IF c.state \notin {CLEAR, WRITE, CONTAINER_WRITE, VALUE_WRITE}
       THEN raise(c, "AssertionError")
       ELSE [c EXCEPT !.structs = Append(@, <<c.state, c.last_fid>>),
                      !.state = WRITE,
                      !.last_fid = 0])

\* writeStructEnd restoring the saved state as it was pushed, VALUE_WRITE
\* included; C1 tells the two apart
writeStructEnd_restoring(self) ==
  Call(self, <<"writeStructEnd">>,
    LET c == Cur(self)
        n == Len(c.structs)
    IN IF c.state # WRITE THEN raise(c, "AssertionError")
       ELSE IF n = 0 THEN raise(c, "IndexError")
       ELSE [c EXCEPT !.structs = SubSeq(@, 1, n - 1),
                      !.state = c.structs[n][1],
                      !.last_fid = c.structs[n][2]])

writeStructEnd(self) ==
  Call(self, <<"writeStructEnd">>,
    LET c == Cur(self)
        n == Len(c.structs)
    IN IF c.state # WRITE THEN raise(c, "AssertionError")
       ELSE IF n = 0 THEN raise(c, "IndexError")
       ELSE [c EXCEPT !.structs = SubSeq(@, 1, n - 1),
                      !.state = IF c.structs[n][1] = VALUE_WRITE THEN WRITE
                                ELSE c.structs[n][1],
                      !.last_fid = c.structs[n][2]])

\* writeMapEnd, writeSetEnd and writeListEnd are this method
writeCollectionEnd(self) ==
  Call(self, <<"writeCollectionEnd">>,
    LET c == Cur(self)
    IN IF c.state # CONTAINER_WRITE THEN raise(c, "AssertionError")
       ELSE setState(c, WRITE))

\* writeFieldBegin without the boolean's deferred header; C4 tells the two
\* apart
writeFieldBegin_eager(self, name, type, fid) ==
  Call(self, <<"writeFieldBegin", name, type, fid>>,
    LET c == Cur(self)
    IN IF c.state # WRITE THEN raise(c, "AssertionError")
       ELSE IF type \notin DOMAIN CTYPES
       THEN raise(setState(c, VALUE_WRITE), "KeyError")
       ELSE __writeFieldHeader(setState(c, VALUE_WRITE), CTYPES[type], fid))

writeFieldBegin(self, name, type, fid) ==
  Call(self, <<"writeFieldBegin", name, type, fid>>,
    LET c == Cur(self)
    IN IF c.state # WRITE THEN raise(c, "AssertionError")
       ELSE IF type = TType.BOOL
       THEN [c EXCEPT !.state = BOOL_WRITE, !.bool_fid = <<fid>>]
       ELSE IF type \notin DOMAIN CTYPES
       THEN raise(setState(c, VALUE_WRITE), "KeyError")
       ELSE __writeFieldHeader(setState(c, VALUE_WRITE), CTYPES[type], fid))

writeFieldStop(self) ==
  Call(self, <<"writeFieldStop">>, __writeByte(Cur(self), 0))

\* writeCollectionBegin with size 15 still in the short form; C9 tells the
\* two apart
writeCollectionBegin_short15(self, etype, size) ==
  Call(self, <<"writeCollectionBegin", etype, size>>,
    LET c == Cur(self)
    IN IF c.state # VALUE_WRITE THEN raise(c, "AssertionError")
       ELSE IF etype \notin DOMAIN CTYPES THEN raise(c, "KeyError")
       ELSE setState(
              IF size <= 15
              THEN __writeUByte(c, BitOr(Shl(size, 4), CTYPES[etype]))
              ELSE __writeSize(__writeUByte(c, BitOr(240, CTYPES[etype])), size),
              CONTAINER_WRITE))

\* writeSetBegin and writeListBegin are this method
writeCollectionBegin(self, etype, size) ==
  Call(self, <<"writeCollectionBegin", etype, size>>,
    LET c == Cur(self)
    IN IF c.state # VALUE_WRITE THEN raise(c, "AssertionError")
       ELSE IF etype \notin DOMAIN CTYPES THEN raise(c, "KeyError")
       ELSE setState(
              IF size <= 14
              THEN __writeUByte(c, BitOr(Shl(size, 4), CTYPES[etype]))
              ELSE __writeSize(__writeUByte(c, BitOr(240, CTYPES[etype])), size),
              CONTAINER_WRITE))

writeMapBegin(self, ktype, vtype, size) ==
  Call(self, <<"writeMapBegin", ktype, vtype, size>>,
    LET c == Cur(self)
    IN IF c.state # VALUE_WRITE THEN raise(c, "AssertionError")
       ELSE setState(
              IF size = 0 THEN __writeByte(c, 0)
              ELSE IF ktype \notin DOMAIN CTYPES \/ vtype \notin DOMAIN CTYPES
              THEN raise(__writeSize(c, size), "KeyError")
              ELSE __writeUByte(__writeSize(c, size),
                                BitOr(Shl(CTYPES[ktype], 4), CTYPES[vtype])),
              CONTAINER_WRITE))

\* the else branch raises AssertetionError, a name Python does not know
writeBool(self, bool) ==
  Call(self, <<"writeBool", bool>>,
    LET c == Cur(self)
    IN setState(
         IF c.state = BOOL_WRITE
         THEN __writeFieldHeader(c, types[bool], c.bool_fid[1])
         ELSE IF c.state = VALUE_WRITE
         THEN __writeByte(c, IF bool THEN 1 ELSE 0)
         ELSE raise(c, "NameError"),
         WRITE))

writeByte(self, byte) ==
  Call(self, <<"writeByte", byte>>,
    LET c == Cur(self) IN writer(c, __writeByte(c, byte)))

writeI16(self, i16) ==
  Call(self, <<"writeI16", i16>>,
    LET c == Cur(self) IN writer(c, __writeI16(c, i16)))

writeI32(self, i32) ==
  Call(self, <<"writeI32", i32>>,
    LET c == Cur(self) IN writer(c, __writeVarint(c, makeZigZag(i32, 32))))

writeI64(self, i64) ==
  Call(self, <<"writeI64", i64>>,
    LET c == Cur(self) IN writer(c, __writeVarint(c, makeZigZag(i64, 64))))

\* A double is the eight bytes of its IEEE-754 binary64 representation,
\* least significant first; pack('!d', dub) puts them in network order.
RECURSIVE Reverse(_)
Reverse(s) == IF s = <<>> THEN <<>> ELSE Append(Reverse(Tail(s)), Head(s))

pack_d(dub) == Reverse(dub)

unpack_d(buff) == Reverse(buff)

writeDouble(self, dub) ==
  Call(self, <<"writeDouble", dub>>,
    LET c == Cur(self) IN writer(c, trans_write(c, pack_d(dub))))

writeString(self, s) ==
  Call(self, <<"writeString", s>>,
    LET c == Cur(self) IN writer(c, __writeString(c, s)))

\* ------------------------------------------------------- the read side
readFieldBegin(self) ==
  Call(self, <<"readFieldBegin">>,
    LET c == Cur(self)
        b == __readUByte(c)
        delta == Shr(b.val, 4)
        f == IF delta = 0 THEN __readI16(b)
             ELSE [b EXCEPT !.val = b.last_fid + delta]
        type == BitAnd(b.val, 15)
        g == [f EXCEPT !.last_fid = f.val,
                       !.state = IF type = CompactType.True THEN TRUE_READ
                                 ELSE IF type = CompactType.False THEN FALSE_READ
                                 ELSE VALUE_READ]
        t == __getTType(g, type)
    IN IF c.state # READ THEN raise(c, "AssertionError")
       ELSE IF ~Ok(b) THEN b
       ELSE IF BitAnd(b.val, 15) = TType.STOP THEN return(b, <<None, 0, 0>>)
       ELSE IF ~Ok(f) THEN f
       ELSE return(t, <<None, t.val, f.val>>))

\* readMessageBegin taking the type bits where they lie, unshifted; C11
\* tells the two apart
readMessageBegin_unshifted(self) ==
  Call(self, <<"readMessageBegin">>,
    LET c == Cur(self)
        p == __readUByte(c)
        v == __readUByte(p)
        type == BitAnd(v.val, TYPE_MASK)
        version == BitAnd(v.val, VERSION_MASK)
        seqid == __readVarint(v)
        name == __readString(seqid)
    IN IF c.state # CLEAR THEN raise(c, "AssertionError")
       ELSE IF ~Ok(p) THEN p
       ELSE IF p.val # PROTOCOL_ID THEN raise(p, "TProtocolException")
       ELSE IF ~Ok(v) THEN v
       ELSE IF version # VERSION THEN raise(v, "TProtocolException")
       ELSE IF ~Ok(seqid) THEN seqid
       ELSE return(name, <<name.val, type, seqid.val>>))

readMessageBegin(self) ==
  Call(self, <<"readMessageBegin">>,
    LET c == Cur(self)
        p == __readUByte(c)
        v == __readUByte(p)
        type == Shr(BitAnd(v.val, TYPE_MASK), TYPE_SHIFT_AMOUNT)
        version == BitAnd(v.val, VERSION_MASK)
        seqid == __readVarint(v)
        name == __readString(seqid)
    IN IF c.state # CLEAR THEN raise(c, "AssertionError")
       ELSE IF ~Ok(p) THEN p
       ELSE IF p.val # PROTOCOL_ID THEN raise(p, "TProtocolException")
       ELSE IF ~Ok(v) THEN v
       ELSE IF version # VERSION THEN raise(v, "TProtocolException")
       ELSE IF ~Ok(seqid) THEN seqid
       ELSE return(name, <<name.val, type, seqid.val>>))

readMessageEnd(self) ==
  Call(self, <<"readMessageEnd">>,
    LET c == Cur(self)
    IN IF c.state # READ THEN raise(c, "AssertionError")
       ELSE IF Len(c.structs) # 0 THEN raise(c, "AssertionError")
       ELSE setState(c, CLEAR))

readStructBegin(self) ==
  Call(self, <<"readStructBegin">>,
    LET c == Cur(self)
    IN IF ~(c.state = CLEAR \/ c.state = READ \/ c.state = CONTAINER_READ
            \/ c.state = VALUE_READ)
       THEN raise(c, "AssertionError")
       ELSE [c EXCEPT !.structs = Append(@, <<c.state, c.last_fid>>),
                      !.state = READ,
                      !.last_fid = 0])

\* readStructEnd keeping the inner struct's last_fid; C17 tells the two
\* apart
readStructEnd_keeping(self) ==
  Call(self, <<"readStructEnd">>,
    LET c == Cur(self)
        n == Len(c.structs)
    IN IF c.state # READ THEN raise(c, "AssertionError")
       ELSE IF n = 0 THEN raise(c, "IndexError")
       ELSE [c EXCEPT !.structs = SubSeq(@, 1, n - 1),
                      !.state = IF c.structs[n][1] = VALUE_READ THEN READ
                                ELSE c.structs[n][1]])

readStructEnd(self) ==
  Call(self, <<"readStructEnd">>,
    LET c == Cur(self)
        n == Len(c.structs)
    IN IF c.state # READ THEN raise(c, "AssertionError")
       ELSE IF n = 0 THEN raise(c, "IndexError")
       ELSE [c EXCEPT !.structs = SubSeq(@, 1, n - 1),
                      !.state = IF c.structs[n][1] = VALUE_READ THEN READ
                                ELSE c.structs[n][1],
                      !.last_fid = c.structs[n][2]])

\* readSetBegin and readListBegin are this method
readCollectionBegin(self) ==
  Call(self, <<"readCollectionBegin">>,
    LET c == Cur(self)
        b == __readUByte(setState(c, CONTAINER_READ))
        t == __getTType(b, b.val)
        n == __readSize(t)
    IN IF c.state # VALUE_READ THEN raise(c, "AssertionError")
       ELSE IF ~Ok(b) THEN b
       ELSE IF ~Ok(t) THEN t
       ELSE IF Shr(b.val, 4) = 15 THEN return(n, <<t.val, n.val>>)
       ELSE return(t, <<t.val, Shr(b.val, 4)>>))

readMapBegin(self) ==
  Call(self, <<"readMapBegin">>,
    LET c == Cur(self)
        size == __readSize(setState(c, CONTAINER_READ))
        b == IF size.val > 0 THEN __readUByte(size) ELSE [size EXCEPT !.val = 0]
        vtype == __getTType(b, b.val)
        ktype == __getTType(vtype, Shr(b.val, 4))
    IN IF c.state # VALUE_READ THEN raise(c, "AssertionError")
       ELSE IF ~Ok(size) THEN size
       ELSE IF ~Ok(b) THEN b
       ELSE return(ktype, <<ktype.val, vtype.val, size.val>>))

\* readSetEnd, readListEnd and readMapEnd are this method
readCollectionEnd(self) ==
  Call(self, <<"readCollectionEnd">>,
    LET c == Cur(self)
    IN IF c.state # CONTAINER_READ THEN raise(c, "AssertionError")
       ELSE setState(c, READ))

readBool(self) ==
  Call(self, <<"readBool">>,
    LET c == Cur(self)
        b == __readByte(setState(c, CONTAINER_READ))
    IN IF c.state = TRUE_READ THEN return(setState(c, READ), TRUE)
       ELSE IF c.state = FALSE_READ THEN return(setState(c, READ), FALSE)
       ELSE IF c.state = CONTAINER_READ
       THEN IF Ok(b) THEN return(b, b.val # 0) ELSE b
       ELSE raise(c, "AssertionError"))

readByte(self) ==
  Call(self, <<"readByte">>,
    LET c == Cur(self) IN reader(c, returning(__readByte(c))))

readI16(self) ==
  Call(self, <<"readI16">>,
    LET c == Cur(self) IN reader(c, returning(__readZigZag(c))))

readI32(self) ==
  Call(self, <<"readI32">>,
    LET c == Cur(self) IN reader(c, returning(__readZigZag(c))))

readI64(self) ==
  Call(self, <<"readI64">>,
    LET c == Cur(self) IN reader(c, returning(__readZigZag(c))))

readDouble(self) ==
  Call(self, <<"readDouble">>,
    LET c == Cur(self)
        buff == trans_readAll(c, 8)
    IN reader(c, IF Ok(buff) THEN return(buff, unpack_d(buff.val)) ELSE buff))

readString(self) ==
  Call(self, <<"readString">>,
    LET c == Cur(self) IN reader(c, returning(__readString(c))))

\* ------------------------------------------------------------- inputs
Codecs == {"A", "B"}

Kinds == DOMAIN CTYPES
Fids == {-1, 1, 16, 17}
Sizes == {0, 1, 14, 15, 16, 127, 128, 32767, 32768}
Names == {<<>>, <<112, 105, 110, 103>>}
MessageTypes == 0..7
Seqids == {0, 1, 127, 128, 300}
ByteVals == {-128, -1, 0, 1, 127}
I16Vals == {-32768, -1, 0, 1, 150, 32767}
I32Vals == {-1, 0, 150}
I64Vals == {-1, 0, 150}
Doubles == {<<0, 0, 0, 0, 0, 0, 0, 0>>, <<24, 45, 68, 84, 251, 33, 9, 64>>}
Strings == {<<>>, <<104, 105>>}

\* how deep the caller nests messages, structs, fields and containers
MaxDepth == 4

\* A container that is a field of the message's struct takes its header
\* from all of Kinds and Sizes; a container nested deeper from these.
NestedSizes == {0, 1, 15}
NestedKeyKinds == {TType.I32}

Init ==
  /\ state = [c \in Codecs |-> CLEAR]
  /\ last_fid = [c \in Codecs |-> 0]
  /\ bool_fid = [c \in Codecs |-> None]
  /\ structs = [c \in Codecs |-> <<>>]
  /\ trans = <<>>
  /\ op = <<"A", "__init__">>
  /\ ret = None
  /\ err = "none"
  /\ ctx = <<>>
  /\ log = <<>>
  /\ sent = <<>>
  /\ open = [c \in Codecs |-> [message |-> 0, struct |-> <<>>]]
  /\ locals = None

\* ------------------------------------------------- the caller: sending
\* Codec A serializes one message, operation by operation, as generated
\* code does: a struct of fields, each a scalar, a struct or a container
\* of the declared element kinds.  ctx is the stack of what is open.
Frame(t, k) == [t |-> t, k |-> k]
Top == ctx[Len(ctx)]
Pop == SubSeq(ctx, 1, Len(ctx) - 1)
Push(f) == Append(ctx, f)
Swap(f) == Append(Pop, f)

\* no call follows one that raised
Running == err = "none"

\* a boolean field's header is written by writeBool: the receiver waits for it
CanSend == Running /\ (log = <<>> \/ state["A"] = BOOL_WRITE)
CanReceive == Running /\ log # <<>> /\ state["A"] # BOOL_WRITE

Send(next) ==
  /\ ctx' = next
  /\ log' = Append(log, Tail(op'))
  /\ UNCHANGED sent

\* the caller is to write a value of this kind: a field's or an element's
Wants(kind) ==
  /\ ctx # <<>>
  /\ Top.t \in {"value", "container"}
  /\ kind \in Top.k

AfterValue == IF Top.t = "value" THEN Pop ELSE ctx

TopLevel == Len(ctx) = 3 /\ Top.t = "value"
SizesHere == IF TopLevel THEN Sizes ELSE NestedSizes
KeyKindsHere == IF TopLevel THEN Kinds ELSE NestedKeyKinds

SendMessageBegin ==
  /\ CanSend /\ ctx = <<>>
  /\ \E name \in Names, type \in MessageTypes, seqid \in Seqids :
       writeMessageBegin("A", name, type, seqid)
  /\ Send(<<Frame("message", {})>>)

SendMessageEnd ==
  /\ CanSend /\ ctx # <<>> /\ Top.t = "trailer"
  /\ writeMessageEnd("A")
  /\ Send(<<Frame("done", {})>>)

SendStructBegin ==
  /\ CanSend /\ ctx # <<>>
  /\ \/ /\ Top.t = "message"
        /\ writeStructBegin("A", <<>>)
        /\ Send(<<Frame("trailer", {}), Frame("struct", {})>>)
     \/ /\ Top.t = "value" /\ TType.STRUCT \in Top.k
        /\ writeStructBegin("A", <<>>)
        /\ Send(Swap(Frame("struct", {})))
     \/ /\ Top.t = "container" /\ TType.STRUCT \in Top.k
        /\ Len(ctx) < MaxDepth
        /\ writeStructBegin("A", <<>>)
        /\ Send(Push(Frame("struct", {})))

SendStructEnd ==
  /\ CanSend /\ ctx # <<>> /\ Top.t = "stop"
  /\ writeStructEnd("A")
  /\ Send(Pop)

SendFieldBegin ==
  /\ CanSend /\ ctx # <<>> /\ Top.t = "struct"
  /\ Len(ctx) < MaxDepth
  /\ \E type \in Kinds, fid \in Fids :
       /\ writeFieldBegin("A", <<>>, type, fid)
       /\ Send(Push(Frame("value", {type})))

SendFieldStop ==
  /\ CanSend /\ ctx # <<>> /\ Top.t = "struct"
  /\ writeFieldStop("A")
  /\ Send(Swap(Frame("stop", {})))

SendCollectionBegin ==
  /\ CanSend
  /\ Wants(TType.LIST) \/ Wants(TType.SET)
  /\ Top.t = "container" => Len(ctx) < MaxDepth
  /\ \E etype \in Kinds, size \in SizesHere :
       /\ writeCollectionBegin("A", etype, size)
       /\ Send(IF Top.t = "value" THEN Swap(Frame("container", {etype}))
               ELSE Push(Frame("container", {etype})))

SendMapBegin ==
  /\ CanSend
  /\ Wants(TType.MAP)
  /\ Top.t = "container" => Len(ctx) < MaxDepth
  /\ \E ktype \in KeyKindsHere, vtype \in Kinds, size \in SizesHere :
       /\ writeMapBegin("A", ktype, vtype, size)
       /\ Send(IF Top.t = "value" THEN Swap(Frame("container", {ktype, vtype}))
               ELSE Push(Frame("container", {ktype, vtype})))

SendCollectionEnd ==
  /\ CanSend /\ ctx # <<>> /\ Top.t = "container"
  /\ writeCollectionEnd("A")
  /\ Send(Pop)

SendBool ==
  /\ CanSend /\ Wants(TType.BOOL)
  /\ \E bool \in BOOLEAN : writeBool("A", bool)
  /\ Send(AfterValue)

SendByte ==
  /\ CanSend /\ Wants(TType.BYTE)
  /\ \E byte \in ByteVals : writeByte("A", byte)
  /\ Send(AfterValue)

SendI16 ==
  /\ CanSend /\ Wants(TType.I16)
  /\ \E i16 \in I16Vals : writeI16("A", i16)
  /\ Send(AfterValue)

SendI32 ==
  /\ CanSend /\ Wants(TType.I32)
  /\ \E i32 \in I32Vals : writeI32("A", i32)
  /\ Send(AfterValue)

SendI64 ==
  /\ CanSend /\ Wants(TType.I64)
  /\ \E i64 \in I64Vals : writeI64("A", i64)
  /\ Send(AfterValue)

SendDouble ==
  /\ CanSend /\ Wants(TType.DOUBLE)
  /\ \E dub \in Doubles : writeDouble("A", dub)
  /\ Send(AfterValue)

SendString ==
  /\ CanSend /\ Wants(TType.STRING)
  /\ \E s \in Strings : writeString("A", s)
  /\ Send(AfterValue)

\* ----------------------------------------------- the caller: receiving
\* Codec B reads the message back from the same transport, one read for
\* each write, in the order of the writes.
Mirrors(name) == CanReceive /\ Head(log)[1] = name

Receive ==
  /\ sent' = Head(log)
  /\ log' = Tail(log)
  /\ UNCHANGED ctx

RecvMessageBegin == Mirrors("writeMessageBegin") /\ readMessageBegin("B") /\ Receive
RecvMessageEnd == Mirrors("writeMessageEnd") /\ readMessageEnd("B") /\ Receive
RecvStructBegin == Mirrors("writeStructBegin") /\ readStructBegin("B") /\ Receive
RecvStructEnd == Mirrors("writeStructEnd") /\ readStructEnd("B") /\ Receive
RecvFieldBegin == Mirrors("writeFieldBegin") /\ readFieldBegin("B") /\ Receive
RecvFieldStop == Mirrors("writeFieldStop") /\ readFieldBegin("B") /\ Receive
RecvCollectionBegin ==
  Mirrors("writeCollectionBegin") /\ readCollectionBegin("B") /\ Receive
RecvMapBegin == Mirrors("writeMapBegin") /\ readMapBegin("B") /\ Receive
RecvCollectionEnd ==
  Mirrors("writeCollectionEnd") /\ readCollectionEnd("B") /\ Receive
RecvBool == Mirrors("writeBool") /\ readBool("B") /\ Receive
RecvByte == Mirrors("writeByte") /\ readByte("B") /\ Receive
RecvI16 == Mirrors("writeI16") /\ readI16("B") /\ Receive
RecvI32 == Mirrors("writeI32") /\ readI32("B") /\ Receive
RecvI64 == Mirrors("writeI64") /\ readI64("B") /\ Receive
RecvDouble == Mirrors("writeDouble") /\ readDouble("B") /\ Receive
RecvString == Mirrors("writeString") /\ readString("B") /\ Receive

Next ==
  \/ SendMessageBegin \/ SendMessageEnd \/ SendStructBegin \/ SendStructEnd
  \/ SendFieldBegin \/ SendFieldStop \/ SendCollectionBegin \/ SendMapBegin
  \/ SendCollectionEnd \/ SendBool \/ SendByte \/ SendI16 \/ SendI32
  \/ SendI64 \/ SendDouble \/ SendString
  \/ RecvMessageBegin \/ RecvMessageEnd \/ RecvStructBegin \/ RecvStructEnd
  \/ RecvFieldBegin \/ RecvFieldStop \/ RecvCollectionBegin \/ RecvMapBegin
  \/ RecvCollectionEnd \/ RecvBool \/ RecvByte \/ RecvI16 \/ RecvI32
  \/ RecvI64 \/ RecvDouble \/ RecvString

Spec == Init /\ [][Next]_vars

\* ------------------------------------------- any call, in any state
\* One protocol object over a transport that already holds what a peer
\* sent; the caller makes any call, legal or not, until one raises.
MaxBytes == 1
MaxStructs == 2

AnyKinds == {TType.BOOL, TType.I32, TType.LIST}
AnyFids == {1, 17}
AnySizes == {1, 15}

\* the sizes a peer may announce
PeerSizes == {0, 1, 32767, 32768, 65536}

\* what the peer sent: nothing, or a field, a list header, a map header or
\* a message header that announces a size
Inbound ==
  {<<>>}
  \cup {<<24>> \o writeVarintLoop(n, <<>>) : n \in PeerSizes}
  \cup {<<25, 245>> \o writeVarintLoop(n, <<>>) : n \in PeerSizes}
  \cup {<<27>> \o writeVarintLoop(n, <<>>) \o <<85>> : n \in PeerSizes}
  \cup {<<130, 33, 0>> \o writeVarintLoop(n, <<>>) : n \in PeerSizes}

InitAny ==
  /\ state = [c \in Codecs |-> CLEAR]
  /\ last_fid = [c \in Codecs |-> 0]
  /\ bool_fid = [c \in Codecs |-> None]
  /\ structs = [c \in Codecs |-> <<>>]
  /\ trans \in Inbound
  /\ op = <<"A", "__init__">>
  /\ ret = None
  /\ err = "none"
  /\ ctx = <<>>
  /\ log = <<>>
  /\ sent = <<>>
  /\ open = [c \in Codecs |-> [message |-> 0, struct |-> <<>>]]
  /\ locals = None

Room == Len(trans) < MaxBytes

Caller == Running /\ UNCHANGED <<ctx, log, sent>>

\* The caller flushes the transport once a message header is on it: the
\* header goes to the peer and the calls that follow find room.
Flush ==
  /\ Running /\ op[2] = "writeMessageBegin"
  /\ trans' = <<>>
  /\ op' = <<"trans", "flush">>
  /\ ret' = None
  /\ UNCHANGED <<state, last_fid, bool_fid, structs, err, ctx, log, sent,
                 open, locals>>

NextAny ==
  \/ Caller /\ Room /\ \E type \in {1, 2} : writeMessageBegin("A", <<>>, type, 0)
  \/ Caller /\ Room /\ writeMessageEnd("A")
  \/ Caller /\ Room /\ Len(structs["A"]) < MaxStructs /\ writeStructBegin("A", <<>>)
  \/ Caller /\ Room /\ writeStructEnd("A")
  \/ Caller /\ Room /\ \E type \in AnyKinds, fid \in AnyFids :
                      writeFieldBegin("A", <<>>, type, fid)
  \/ Caller /\ Room /\ writeFieldStop("A")
  \/ Caller /\ Room /\ \E etype \in AnyKinds, size \in AnySizes :
                      writeCollectionBegin("A", etype, size)
  \/ Caller /\ Room /\ \E ktype \in AnyKinds, vtype \in AnyKinds, size \in {0, 1} :
                      writeMapBegin("A", ktype, vtype, size)
  \/ Caller /\ Room /\ writeCollectionEnd("A")
  \/ Caller /\ Room /\ \E bool \in BOOLEAN : writeBool("A", bool)
  \/ Caller /\ Room /\ writeByte("A", -1)
  \/ Caller /\ Room /\ writeI16("A", 150)
  \/ Caller /\ Room /\ writeI32("A", -1)
  \/ Caller /\ Room /\ writeI64("A", 150)
  \/ Caller /\ Room /\ \E dub \in Doubles : writeDouble("A", dub)
  \/ Caller /\ Room /\ \E s \in Strings : writeString("A", s)
  \/ Caller /\ readMessageBegin("A")
  \/ Caller /\ readMessageEnd("A")
  \/ Caller /\ Len(structs["A"]) < MaxStructs /\ readStructBegin("A")
  \/ Caller /\ readStructEnd("A")
  \/ Caller /\ readFieldBegin("A")
  \/ Caller /\ readCollectionBegin("A")
  \/ Caller /\ readMapBegin("A")
  \/ Caller /\ readCollectionEnd("A")
  \/ Caller /\ readBool("A")
  \/ Caller /\ readByte("A")
  \/ Caller /\ readI16("A")
  \/ Caller /\ readI32("A")
  \/ Caller /\ readI64("A")
  \/ Caller /\ readDouble("A")
  \/ Caller /\ readString("A")
  \/ Flush

SpecAny == InitAny /\ [][NextAny]_vars

\* ------------------------------------------- integers of any width
\* A Python int has no width.  Where a value may pass 31 bits it is kept
\* as its two's-complement digits, least significant first, below a sign
\* that repeats for ever: value = sum of bits[i] * 2^(i-1), less 2^Len(bits)
\* when neg.  The digits never end in a copy of the sign.
RECURSIVE Strip(_, _)
Strip(bits, d) ==
  IF bits # <<>> /\ bits[Len(bits)] = d
  THEN Strip(SubSeq(bits, 1, Len(bits) - 1), d)
  ELSE bits

Wide(neg, bits) == [neg |-> neg, bits |-> Strip(bits, IF neg THEN 1 ELSE 0)]

WideBit(x, i) ==
  IF i <= Len(x.bits) THEN x.bits[i] ELSE IF x.neg THEN 1 ELSE 0

WideLen(x, y) == IF Len(x.bits) > Len(y.bits) THEN Len(x.bits) ELSE Len(y.bits)

\* x << k
WideShl(x, k) == Wide(x.neg, [i \in 1..k |-> 0] \o x.bits)

\* x >> k, the sign shifted in
WideShr(x, k) ==
  Wide(x.neg, IF k >= Len(x.bits) THEN <<>>
              ELSE SubSeq(x.bits, k + 1, Len(x.bits)))

\* x & y
WideAnd(x, y) ==
  Wide(x.neg /\ y.neg,
       [i \in 1..WideLen(x, y) |-> WideBit(x, i) * WideBit(y, i)])

\* x | y
WideOr(x, y) ==
  Wide(x.neg \/ y.neg,
       [i \in 1..WideLen(x, y) |->
          WideBit(x, i) + WideBit(y, i) - WideBit(x, i) * WideBit(y, i)])

\* x ^ y
WideXor(x, y) ==
  Wide(x.neg # y.neg,
       [i \in 1..WideLen(x, y) |-> (WideBit(x, i) + WideBit(y, i)) % 2])

\* ~x
WideNot(x) == Wide(~x.neg, [i \in 1..Len(x.bits) |-> 1 - x.bits[i]])

\* x + y, digit by digit with the carry, over two digits more than the
\* longer operand; the last digit is the sum's sign
RECURSIVE WideSum(_, _, _, _, _)
WideSum(x, y, i, w, carry) ==
  IF i > w THEN <<>>
  ELSE LET t == WideBit(x, i) + WideBit(y, i) + carry
       IN <<t % 2>> \o WideSum(x, y, i + 1, w, t \div 2)

WideAdd(x, y) ==
  LET w == WideLen(x, y) + 2
      d == WideSum(x, y, 1, w, 0)
  IN Wide(d[w] = 1, SubSeq(d, 1, w - 1))

\* -x
WideNeg(x) == WideAdd(WideNot(x), Wide(FALSE, <<1>>))

\* an int of the model as a wide integer, and back
RECURSIVE Digits(_)
Digits(i) == IF i = 0 THEN <<>> ELSE <<i % 2>> \o Digits(i \div 2)

ToWide(i) == IF i >= 0 THEN Wide(FALSE, Digits(i)) ELSE WideNot(Wide(FALSE, Digits(-i - 1)))

RECURSIVE Value(_)
Value(bits) == IF bits = <<>> THEN 0 ELSE Head(bits) + 2 * Value(Tail(bits))

ToInt(x) == IF x.neg THEN -Value(WideNot(x).bits) - 1 ELSE Value(x.bits)

\* 2^k and 2^k - 1
Pow2(k) == Wide(FALSE, [i \in 1..k |-> 0] \o <<1>>)
Pow2Less1(k) == Wide(FALSE, [i \in 1..k |-> 1])

\* ------------------------------- varint and zigzag at their full width
makeZigZag_wide(n, bits) == WideXor(WideShl(n, 1), WideShr(n, bits - 1))

\* fromZigZag without the minus sign; C13 tells the two apart
fromZigZag_unsigned(n) == WideXor(WideShr(n, 1), WideAnd(n, ToWide(1)))

fromZigZag_wide(n) == WideXor(WideShr(n, 1), WideNeg(WideAnd(n, ToWide(1))))

\* writeVarint's loop, a pass at a time, on its locals n and out:
\* the test n & ~0x7f == 0, the pass that breaks and the pass that goes on
writeVarint_test(l) == WideAnd(l.n, WideNot(ToWide(127))) = ToWide(0)

writeVarint_break(l) == [l EXCEPT !.out = Append(@, ToInt(l.n))]

writeVarint_pass(l) ==
  [n |-> WideShr(l.n, 7),
   out |-> Append(l.out, ToInt(WideOr(WideAnd(l.n, ToWide(255)), ToWide(128))))]

\* readVarint masking with 0xf7, as the unreachable loop of __readVarint
\* does; C12 tells the two apart
RECURSIVE readVarint_f7(_, _, _)
readVarint_f7(bytes, result, shift) ==
  IF bytes = <<>> THEN [val |-> result, rest |-> <<>>, err |-> "EOFError"]
  ELSE LET byte == Head(bytes)
           r == WideOr(result, WideShl(ToWide(BitAnd(byte, 247)), shift))
       IN IF Shr(byte, 7) = 0
          THEN [val |-> r, rest |-> Tail(bytes), err |-> "none"]
          ELSE readVarint_f7(Tail(bytes), r, shift + 7)

\* readVarint on the bytes of the transport: the value, the bytes left
RECURSIVE readVarint_wide(_, _, _)
readVarint_wide(bytes, result, shift) ==
  IF bytes = <<>> THEN [val |-> result, rest |-> <<>>, err |-> "EOFError"]
  ELSE LET byte == Head(bytes)
           r == WideOr(result, WideShl(ToWide(BitAnd(byte, 127)), shift))
       IN IF Shr(byte, 7) = 0
          THEN [val |-> r, rest |-> Tail(bytes), err |-> "none"]
          ELSE readVarint_wide(Tail(bytes), r, shift + 7)

\* ------------------------------------------- the codecs, value by value
\* One value at a time is handed to writeVarint, whose loop runs a pass a
\* step, and is read back from the bytes it wrote.
MaxBits == 64
MaxVarintBytes == 12

Widths == {16, 32, 64}

\* the powers of two and their neighbours below 2^MaxBits
VarintInputs ==
  {Pow2(k) : k \in 0..(MaxBits - 1)} \cup {Pow2Less1(k) : k \in 0..MaxBits}
    \cup {ToWide(300)}

\* of a width: its minimum, its maximum, -1, and the powers of two between
ZigZagInputs(w) ==
  {WideNeg(Pow2(k)) : k \in 0..(w - 1)} \cup {Pow2Less1(k) : k \in 0..(w - 1)}
    \cup {Pow2(k) : k \in 0..(w - 2)} \cup {ToWide(150)}

\* a seqid is a 32-bit integer, signed in the generated code
SeqidInputs ==
  {ToWide(0), ToWide(1), Pow2Less1(31), ToWide(-1), WideNeg(Pow2(31))}

SizeInputs == {ToWide(0), ToWide(15), ToWide(32767), ToWide(32768)}

Idle == Running /\ locals = None /\ trans = <<>>

Hand(name, arg, n) ==
  /\ op' = <<"A", name, arg>>
  /\ locals' = [n |-> n, out |-> <<>>]
  /\ ret' = None
  /\ sent' = <<>>
  /\ UNCHANGED <<state, last_fid, bool_fid, structs, trans, err, ctx, log,
                 open>>

CallWriteVarint == Idle /\ \E n \in VarintInputs : Hand("writeVarint", n, n)

CallWriteI16 ==
  Idle /\ \E i16 \in ZigZagInputs(16) : Hand("writeI16", i16, makeZigZag_wide(i16, 16))

CallWriteI32 ==
  Idle /\ \E i32 \in ZigZagInputs(32) : Hand("writeI32", i32, makeZigZag_wide(i32, 32))

CallWriteI64 ==
  Idle /\ \E i64 \in ZigZagInputs(64) : Hand("writeI64", i64, makeZigZag_wide(i64, 64))

\* writeMessageBegin's self.__writeVarint(seqid)
CallWriteSeqid ==
  Idle /\ \E seqid \in SeqidInputs : Hand("writeMessageBegin", seqid, seqid)

CallWriteSize == Idle /\ \E i32 \in SizeInputs : Hand("__writeSize", i32, i32)

Pass ==
  /\ Running /\ locals # None
  /\ ~writeVarint_test(locals)
  /\ Len(locals.out) < MaxVarintBytes
  /\ locals' = writeVarint_pass(locals)
  /\ UNCHANGED <<state, last_fid, bool_fid, structs, trans, op, ret, err, ctx,
                 log, sent, open>>

\* the pass that breaks, and trans.write(''.join(map(chr, out)))
Break ==
  /\ Running /\ locals # None
  /\ writeVarint_test(locals)
  /\ trans' = trans \o writeVarint_break(locals).out
  /\ locals' = None
  /\ UNCHANGED <<state, last_fid, bool_fid, structs, op, ret, err, ctx, log,
                 sent, open>>

Written == Running /\ locals = None /\ trans # <<>>

ReadBack(name, value) ==
  /\ op' = <<"B", name>>
  /\ trans' = value.rest
  /\ err' = value.err
  /\ sent' = Tail(op)
  /\ UNCHANGED <<state, last_fid, bool_fid, structs, ctx, log, open, locals>>

ReadVarint ==
  /\ Written /\ op[2] \in {"writeVarint", "writeMessageBegin", "__writeSize"}
  /\ LET value == readVarint_wide(trans, ToWide(0), 0)
     IN ReadBack("readVarint", value) /\ ret' = value.val

ReadZigZag ==
  /\ Written /\ op[2] \in {"writeI16", "writeI32", "writeI64"}
  /\ LET value == readVarint_wide(trans, ToWide(0), 0)
     IN /\ ReadBack(IF op[2] = "writeI16" THEN "readI16"
                    ELSE IF op[2] = "writeI32" THEN "readI32" ELSE "readI64",
                    value)
        /\ ret' = fromZigZag_wide(value.val)

NextVarint ==
  \/ CallWriteVarint
  \/ CallWriteI16
  \/ CallWriteI32
  \/ CallWriteI64
  \/ CallWriteSeqid
  \/ CallWriteSize
  \/ Pass
  \/ Break
  \/ ReadVarint
  \/ ReadZigZag

SpecVarint == Init /\ [][NextVarint]_vars

\* ------------------------------------------------ the wire format
\* The encodings as the protocol's description gives them, written with
\* arithmetic only; the claims compare what the code emits with these.
WireZigZag(n) == IF n >= 0 THEN 2 * n ELSE -2 * n - 1

RECURSIVE WireVarint(_)
WireVarint(n) ==
  IF n < 128 THEN <<n>> ELSE <<(n % 128) + 128>> \o WireVarint(n \div 128)

WireFieldHeader(last, fid, ctype) ==
  IF 1 <= fid - last /\ fid - last <= 15
  THEN <<(fid - last) * 16 + ctype>>
  ELSE <<ctype>> \o WireVarint(WireZigZag(fid))

WireListHeader(ctype, size) ==
  IF size <= 14 THEN <<size * 16 + ctype>>
  ELSE <<240 + ctype>> \o WireVarint(size)

WireMapHeader(kctype, vctype, size) ==
  IF size = 0 THEN <<0>> ELSE WireVarint(size) \o <<kctype * 16 + vctype>>

StartsWith(s, p) == Len(s) >= Len(p) /\ SubSeq(s, 1, Len(p)) = p

\* the call this step makes
Calls(self, name) == op'[1] = self /\ op'[2] = name

\* ---------------------------------------------------------------- C1
\* C1: in a well-nested write sequence from CLEAR (message, struct, fields
\* of scalars, booleans, structs and containers, stop, ends) the only calls
\* that raise are the ones the claim leaves out, a boolean or a container
\* written as a container element, and after writeMessageEnd the codec is
\* in CLEAR with an empty frame stack.
C1_WellNestedWrite ==
  /\ (op[1] = "A" /\ err # "none") =>
       /\ state["A"] = CONTAINER_WRITE
       /\ op[2] \in {"writeBool", "writeCollectionBegin", "writeMapBegin"}
  /\ (ctx # <<>> /\ Top.t = "done") =>
       state["A"] = CLEAR /\ structs["A"] = <<>>

\* the whole message is written
C1_Witness ==
  /\ op = <<"A", "writeMessageEnd">> /\ err = "none"
  /\ ctx = <<Frame("done", {})>>
  /\ state["A"] = CLEAR

\* ---------------------------------------------------------------- C2
\* C2: reading a well-formed message back raises no state assertion, the
\* state is READ after readMessageBegin and CLEAR after readMessageEnd.
C2_ReadSideSymmetric ==
  /\ op[1] = "B" => err # "AssertionError"
  /\ (op = <<"B", "readMessageBegin">> /\ err = "none") => state["B"] = READ
  /\ op = <<"B", "readMessageEnd">> => (err = "none" /\ state["B"] = CLEAR)

\* ---------------------------------------------------------------- C3
\* The rows of the transition table: the states each operation is legal in.
Rows(name) ==
  CASE name = "writeMessageBegin" -> {CLEAR}
    [] name = "writeMessageEnd" -> {WRITE}
    [] name = "writeStructBegin" -> {CLEAR, WRITE, CONTAINER_WRITE, VALUE_WRITE}
    [] name = "writeStructEnd" -> {WRITE}
    [] name = "writeFieldBegin" -> {WRITE}
    [] name = "writeFieldStop" -> {WRITE}
    [] name \in {"writeCollectionBegin", "writeMapBegin"} -> {VALUE_WRITE}
    [] name = "writeCollectionEnd" -> {CONTAINER_WRITE}
    [] name = "writeBool" -> {BOOL_WRITE, VALUE_WRITE, CONTAINER_WRITE}
    [] name \in {"writeByte", "writeI16", "writeI32", "writeI64",
                 "writeDouble", "writeString"} -> {VALUE_WRITE, CONTAINER_WRITE}
    [] name = "readMessageBegin" -> {CLEAR}
    [] name = "readMessageEnd" -> {READ}
    [] name = "readStructBegin" -> {CLEAR, READ, CONTAINER_READ, VALUE_READ}
    [] name = "readStructEnd" -> {READ}
    [] name = "readFieldBegin" -> {READ}
    [] name \in {"readCollectionBegin", "readMapBegin"} -> {VALUE_READ}
    [] name = "readCollectionEnd" -> {CONTAINER_READ}
    [] name = "readBool" -> {TRUE_READ, FALSE_READ, CONTAINER_READ}
    [] name \in {"readByte", "readI16", "readI32", "readI64",
                 "readDouble", "readString"} -> {VALUE_READ, CONTAINER_READ}

\* C3: a call made in a state the table has no row for raises, moves no
\* byte and leaves state, last_fid and the frame stack as they were.
C3_IllegalCallFails ==
  [][(op'[1] = "A" /\ op'[2] # "__init__" /\ state["A"] \notin Rows(op'[2])) =>
       /\ err' # "none"
       /\ trans' = trans
       /\ state' = state /\ last_fid' = last_fid /\ structs' = structs]_vars

\* ---------------------------------------------------------------- C4
\* C4: writeFieldBegin(BOOL, fid) in WRITE emits nothing and latches fid in
\* BOOL_WRITE; writeBool(v) then emits the field header alone, with ctype
\* TRUE or FALSE, sets last_fid and returns to WRITE; readFieldBegin on it
\* returns (BOOL, fid) into TRUE_READ or FALSE_READ and readBool returns v
\* without reading a byte, back in READ.
C4_BoolFieldInHeader ==
  [][/\ (Calls("A", "writeFieldBegin") /\ op'[4] = TType.BOOL
         /\ state["A"] = WRITE) =>
          /\ err' = "none"
          /\ trans' = trans
          /\ state'["A"] = BOOL_WRITE
          /\ bool_fid'["A"] = <<op'[5]>>
     /\ (Calls("A", "writeBool") /\ state["A"] = BOOL_WRITE) =>
          /\ err' = "none"
          /\ trans' = trans \o WireFieldHeader(last_fid["A"], bool_fid["A"][1],
                                               IF op'[3] THEN 1 ELSE 2)
          /\ last_fid'["A"] = bool_fid["A"][1]
          /\ state'["A"] = WRITE
     /\ (Calls("B", "readFieldBegin") /\ sent'[1] = "writeFieldBegin"
         /\ sent'[3] = TType.BOOL) =>
          /\ err' = "none"
          /\ ret' = <<None, TType.BOOL, sent'[4]>>
          /\ state'["B"] = IF log'[1][2] THEN TRUE_READ ELSE FALSE_READ
     /\ (Calls("B", "readBool") /\ state["B"] \in {TRUE_READ, FALSE_READ}) =>
          /\ err' = "none"
          /\ ret' = sent'[2]
          /\ trans' = trans
          /\ state'["B"] = READ
    ]_vars

\* a boolean field written at a long-form field id and read back
C4_Witness ==
  /\ op = <<"B", "readBool">> /\ err = "none"
  /\ sent = <<"writeBool", FALSE>> /\ ret = FALSE
  /\ last_fid["B"] = 17 /\ state["B"] = READ /\ trans = <<>>

\* ---------------------------------------------------------------- C5
\* C5: writeBool as a container element is accepted, emits the one byte 0
\* or 1 and stays in CONTAINER_WRITE; readBool in CONTAINER_READ reads that
\* byte, returns the boolean and stays in CONTAINER_READ.
C5_BoolElement ==
  [][/\ (Calls("A", "writeBool") /\ state["A"] = CONTAINER_WRITE) =>
          /\ err' = "none"
          /\ trans' = trans \o <<IF op'[3] THEN 1 ELSE 0>>
          /\ state'["A"] = CONTAINER_WRITE
     /\ (Calls("B", "readBool") /\ state["B"] = CONTAINER_READ) =>
          /\ err' = "none"
          /\ ret' = sent'[2]
          /\ Len(trans') = Len(trans) - 1
          /\ state'["B"] = CONTAINER_READ
    ]_vars

\* ---------------------------------------------------------------- C6
\* C6: writeMapBegin(ktype, vtype, size) emits 0x00 for size 0 and
\* varint(size), (key ctype << 4) | value ctype otherwise; readMapBegin on
\* it completes and returns the size and, for size > 0, the kinds.
C6_MapHeaderRoundTrip ==
  [][/\ (Calls("A", "writeMapBegin") /\ state["A"] = VALUE_WRITE
         /\ op'[5] <= 32767) =>
          /\ err' = "none"
          /\ trans' = trans \o WireMapHeader(CTYPES[op'[3]], CTYPES[op'[4]], op'[5])
     /\ (Calls("B", "readMapBegin") /\ state["B"] = VALUE_READ
         /\ sent'[4] <= 32767) =>
          /\ err' = "none"
          /\ ret'[3] = sent'[4]
          /\ sent'[4] > 0 => ret' = <<sent'[2], sent'[3], sent'[4]>>
    ]_vars

\* ---------------------------------------------------------------- C7
\* C7: a container written or read as an element of a container raises no
\* state assertion.
C7_ContainersNest ==
  op[2] \in {"writeCollectionBegin", "writeMapBegin", "writeCollectionEnd",
             "readCollectionBegin", "readMapBegin", "readCollectionEnd"}
    => err # "AssertionError"

\* ---------------------------------------------------------------- C8
\* C8: whatever the order of the field ids, a non-boolean field's header is
\* the byte (delta << 4) | ctype when 1 <= fid - last_fid <= 15 and else
\* the ctype byte followed by zigzag-varint(fid); last_fid becomes fid; and
\* readFieldBegin returns the kind and the id that were written.
C8_FieldHeader ==
  [][/\ (Calls("A", "writeFieldBegin") /\ op'[4] # TType.BOOL
         /\ state["A"] = WRITE) =>
          /\ err' = "none"
          /\ trans' = trans \o WireFieldHeader(last_fid["A"], op'[5], CTYPES[op'[4]])
          /\ Len(trans') = Len(trans) + 1 <=>
               (1 <= op'[5] - last_fid["A"] /\ op'[5] - last_fid["A"] <= 15)
          /\ last_fid'["A"] = op'[5]
     /\ (Calls("B", "readFieldBegin") /\ sent'[1] = "writeFieldBegin") =>
          /\ err' = "none"
          /\ ret' = <<None, sent'[3], sent'[4]>>
          /\ last_fid'["B"] = sent'[4]
    ]_vars

\* a field id below every last_fid a struct can have here, so written in
\* the long form <<ctype, zigzag-varint(fid)>>, was read back
C8_Witness ==
  /\ op = <<"B", "readFieldBegin">> /\ err = "none"
  /\ sent = <<"writeFieldBegin", <<>>, TType.I64, -1>>
  /\ ret = <<None, TType.I64, -1>>
  /\ last_fid = [a \in Codecs |-> -1]
  /\ trans = <<>>

\* ---------------------------------------------------------------- C9
\* C9: write{List,Set}Begin(etype, size) in VALUE_WRITE emits
\* (size << 4) | ctype for size <= 14 and 0xF0 | ctype, varint(size) from
\* size 15 on, and moves to CONTAINER_WRITE; read{List,Set}Begin returns
\* (etype, size) and moves VALUE_READ to CONTAINER_READ.
C9_ListHeader ==
  [][/\ (Calls("A", "writeCollectionBegin") /\ state["A"] = VALUE_WRITE
         /\ op'[4] <= 32767) =>
          /\ err' = "none"
          /\ trans' = trans \o WireListHeader(CTYPES[op'[3]], op'[4])
          /\ state'["A"] = CONTAINER_WRITE
     /\ (Calls("B", "readCollectionBegin") /\ state["B"] = VALUE_READ
         /\ sent'[3] <= 32767) =>
          /\ err' = "none"
          /\ ret' = <<sent'[2], sent'[3]>>
          /\ state'["B"] = CONTAINER_READ
    ]_vars

\* the first long-form size read back
C9_Witness ==
  /\ op = <<"B", "readCollectionBegin">> /\ err = "none"
  /\ sent = <<"writeCollectionBegin", TType.STRING, 15>>
  /\ ret = <<TType.STRING, 15>> /\ state["B"] = CONTAINER_READ

\* --------------------------------------------------------------- C10
\* C10: a read that decodes a size (a string's length, a long-form list or
\* set size, a map size, the message name's length) raises the protocol
\* error exactly when the size the peer announced exceeds 0x7FFF.
C10_SizeLimit ==
  [][\A n \in PeerSizes :
       /\ (Calls("A", "readString") /\ state["A"] \in {VALUE_READ, CONTAINER_READ}
           /\ StartsWith(trans, WireVarint(n))) =>
            (err' = "TException" <=> n > 32767)
       /\ (Calls("A", "readCollectionBegin") /\ state["A"] = VALUE_READ
           /\ \E ctype \in DOMAIN TTYPES :
                StartsWith(trans, <<240 + ctype>> \o WireVarint(n))) =>
            (err' = "TException" <=> n > 32767)
       /\ (Calls("A", "readMapBegin") /\ state["A"] = VALUE_READ
           /\ StartsWith(trans, WireVarint(n))) =>
            (err' = "TException" <=> n > 32767)
       /\ (Calls("A", "readMessageBegin") /\ state["A"] = CLEAR
           /\ \E seqid \in Seqids :
                StartsWith(trans, <<130, 33>> \o WireVarint(seqid) \o WireVarint(n))) =>
            (err' = "TException" <=> n > 32767)
    ]_vars

\* a string whose announced length is 0x8000 is refused
C10_Witness ==
  /\ op = <<"A", "readString">> /\ err = "TException"
  /\ state["A"] = READ

\* --------------------------------------------------------------- C11
\* C11: writeMessageBegin(name, type, seqid) from CLEAR emits 0x82, the
\* byte 1 | (type << 5), varint(seqid), varint(len(name)) and the name, and
\* readMessageBegin on those bytes returns (name, type, seqid).
C11_MessageHeader ==
  [][/\ (Calls("A", "writeMessageBegin") /\ state["A"] = CLEAR) =>
          /\ err' = "none"
          /\ trans' = trans \o <<130, 1 + 32 * op'[4]>> \o WireVarint(op'[5])
                            \o WireVarint(Len(op'[3])) \o op'[3]
     /\ (Calls("B", "readMessageBegin") /\ sent'[1] = "writeMessageBegin") =>
          /\ err' = "none"
          /\ ret' = <<sent'[2], sent'[3], sent'[4]>>
          /\ trans' = <<>>
    ]_vars

\* the header of the 'ping' CALL with seqid 0, 82 21 00 04 70 69 6E 67,
\* was read back
C11_Witness ==
  /\ op = <<"B", "readMessageBegin">> /\ err = "none"
  /\ sent = <<"writeMessageBegin", <<112, 105, 110, 103>>, 1, 0>>
  /\ ret = <<<<112, 105, 110, 103>>, 1, 0>>
  /\ trans = <<>>

\* --------------------------------------------------------------- C14
\* C14: the state is CLEAR exactly when no message and no struct is open,
\* after any sequence of calls that raised nothing.
C14_ClearIffNothingOpen ==
  err = "none" =>
    (state["A"] = CLEAR <=>
       (open["A"].message = 0 /\ open["A"].struct = <<>>))

\* --------------------------------------------------------------- C15
\* C15: after any sequence of calls that raised nothing the frame stack is
\* as deep as the number of structs open, and it is empty whenever the
\* state is CLEAR.
C15_StackDepth ==
  err = "none" =>
    /\ Len(structs["A"]) = Len(open["A"].struct)
    /\ state["A"] = CLEAR => structs["A"] = <<>>

\* --------------------------------------------------------------- C16
\* C16: the pending boolean field id is set in BOOL_WRITE and is None in
\* every other state.
C16_PendingBoolFid ==
  \A self \in Codecs : state[self] = BOOL_WRITE <=> bool_fid[self] # None

\* --------------------------------------------------------------- C17
\* what the end of a struct makes of the state the struct was begun in
Collapsed(s) ==
  IF s = VALUE_WRITE THEN WRITE ELSE IF s = VALUE_READ THEN READ ELSE s

\* C17: a struct's begin sets last_fid to 0 and the state to WRITE or READ;
\* the matching end restores the last_fid and the state held just before
\* that begin, VALUE_WRITE and VALUE_READ collapsed to WRITE and READ.
C17_StructFrames ==
  [][\A self \in Codecs :
       LET begun == open[self].struct
           top == begun[Len(begun)]
       IN /\ (Calls(self, "writeStructBegin") /\ err' = "none") =>
               last_fid'[self] = 0 /\ state'[self] = WRITE
          /\ (Calls(self, "readStructBegin") /\ err' = "none") =>
               last_fid'[self] = 0 /\ state'[self] = READ
          /\ ((Calls(self, "writeStructEnd") \/ Calls(self, "readStructEnd"))
              /\ err' = "none") =>
               /\ begun # <<>>
               /\ last_fid'[self] = top[2]
               /\ state'[self] = Collapsed(top[1])
    ]_vars

\* a struct that was an element of a container of field 17 is ended on
\* the reading side
C17_Witness ==
  /\ op = <<"B", "readStructEnd">> /\ err = "none"
  /\ state["B"] = CONTAINER_READ /\ last_fid["B"] = 17
  /\ Len(open["B"].struct) = 1

\* --------------------------------------------------------------- C18
WriterStates == {WRITE, BOOL_WRITE, VALUE_WRITE, CONTAINER_WRITE}
ReaderStates == {READ, VALUE_READ, CONTAINER_READ, TRUE_READ, FALSE_READ}

C12_VarintBijection ==
  /\ (op[2] = "writeVarint" /\ Written) =>
       /\ Len(trans) = IF op[3].bits = <<>> THEN 1
                       ELSE (Len(op[3].bits) + 6) \div 7
       /\ \A i \in 1..Len(trans) : trans[i] >= 128 <=> i < Len(trans)
       /\ \A i \in 1..Len(trans) : trans[i] \in 0..255
  /\ (op[2] = "readVarint" /\ sent[1] = "writeVarint") =>
       /\ err = "none"
       /\ ret = sent[2]
       /\ trans = <<>>

\* 2^63, ten bytes long, was read back
C12_Witness ==
  /\ op = <<"B", "readVarint">> /\ err = "none"
  /\ sent = <<"writeVarint", Pow2(63)>>
  /\ ret = Pow2(63) /\ trans = <<>>

\* --------------------------------------------------------------- C13
\* 2n for n >= 0 and -2n - 1 for n < 0, by addition and negation
WireZigZagWide(n) ==
  IF n.neg THEN WideAdd(WideNeg(WideAdd(n, n)), ToWide(-1)) ELSE WideAdd(n, n)

\* C13: for the widths 16, 32 and 64 and n within the width, makeZigZag
\* gives 2n or -2n - 1, and readI16/I32/I64 on the bytes of
\* writeI16/I32/I64(n) returns n.
C13_ZigZagBijection ==
  /\ (op[2] \in {"writeI16", "writeI32", "writeI64"} /\ locals # None
      /\ locals.out = <<>>) =>
       locals.n = WireZigZagWide(op[3])
  /\ (op[2] \in {"readI16", "readI32", "readI64"}) =>
       /\ err = "none"
       /\ ret = sent[2]
       /\ trans = <<>>

\* -2^63, the least i64, was read back
C13_Witness ==
  /\ op = <<"B", "readI64">> /\ err = "none"
  /\ sent = <<"writeI64", WideNeg(Pow2(63))>>
  /\ ret = WideNeg(Pow2(63)) /\ trans = <<>>

\* --------------------------------------------------------------- C19
\* C19: writeVarint's loop ends within ten bytes for every value the
\* operations hand it: out never holds ten bytes with a pass still to
\* come, and no more than ten are written.
C19_VarintTerminates ==
  /\ locals # None => Len(locals.out) < 10
  /\ Written => Len(trans) <= 10

\* --------------------------------------------------------------- C20
\* C20: whatever size or string a write{List,Set,Map}Begin or writeString
\* that completed was given, the matching read on the bytes it emitted
\* completes and returns that size or string.  The empty map, which C6
\* settles, is left out here.
C20_WriterWithinReaderLimit ==
  [][/\ (Calls("B", "readCollectionBegin")
         /\ sent'[1] = "writeCollectionBegin") =>
          /\ err' = "none"
          /\ ret'[2] = sent'[3]
     /\ (Calls("B", "readMapBegin") /\ sent'[1] = "writeMapBegin"
         /\ sent'[4] > 0) =>
          /\ err' = "none"
          /\ ret'[3] = sent'[4]
     /\ (Calls("B", "readString") /\ sent'[1] = "writeString") =>
          /\ err' = "none"
          /\ ret' = sent'[2]
    ]_vars

====
